---- MODULE Spec2Model ----
(***************************************************************************)
(* A model of get-mouse-battery-rs (src/src/main.rs): the 90-byte Razer    *)
(* report codec, one feature-report transaction, the wired/wireless device *)
(* search and the orchestration in main.                                   *)
(*                                                                         *)
(* Rust indexes from 0, TLA+ sequences from 1: byte i of a Rust buffer is  *)
(* element i + 1 of the sequence that models it.                           *)
(***************************************************************************)
EXTENDS Integers, Sequences, FiniteSets

VARIABLES
    pc,              \* position of main / get_razer_report
    debug,           \* cfg!(debug_assertions) of the build that runs
    devices,         \* api.device_list(): the enumerated entries, in order
    device,          \* main's `device`: None or the opened handle
    cmd,             \* the `cmd` argument of the running get_razer_report
    levels_report,   \* main's `levels_report`
    charging_report, \* main's `charging_report`
    io,              \* every call made on the HID layer, in order
    stdout,          \* lines printed to standard output
    stderr,          \* lines printed to standard error
    exit,            \* "running", "success" or "failure"
    t_report,        \* codec harness: the RazerReport under test
    t_bytes,         \* codec harness: its encoding (or a raw buffer)
    t_parsed         \* codec harness: the result of decoding t_bytes

vars == <<pc, debug, devices, device, cmd, levels_report, charging_report,
          io, stdout, stderr, exit, t_report, t_bytes, t_parsed>>

progVars == <<pc, debug, devices, device, cmd, levels_report, charging_report,
              io, stdout, stderr, exit>>

codecVars == <<t_report, t_bytes, t_parsed>>

None == [none |-> TRUE]

-----------------------------------------------------------------------------
(* Program constants                                                       *)

RAZER_VID == 5426
PID_BASILISK_V3_WIRED == 170
PID_BASILISK_V3_WIRELESS == 171
REPORT_INDEX == 0
COMMAND_CLASS_MISC == 7
TRANSACTION_ID == 31
GetBattery == 128
GetChargingStatus == 132
SIZE == 90
ARGS == 80
WIRE == 91
MIN_LEN == 90

Byte == 0..255

-----------------------------------------------------------------------------
(* Bounds of the model                                                     *)

\* longest enumerated device list
MaxDevices == 2
\* number of argument positions the codec harness perturbs, from each end
ArgProbe == 2

-----------------------------------------------------------------------------
(* u8 arithmetic                                                           *)

RECURSIVE XorBits(_, _, _)
XorBits(a, b, n) ==
    IF n = 0 THEN 0
    ELSE (((a % 2) + (b % 2)) % 2) + 2 * XorBits(a \div 2, b \div 2, n - 1)

XorTable == [a \in Byte |-> [b \in Byte |-> XorBits(a, b, 8)]]

\* the ^ of two u8 values
Xor8(a, b) == XorTable[a][b]

\* `checksum = 0; for i in lo..hi { checksum ^= bytes[i] }` (Rust indices).
\* ^ is associative with identity 0, so the loop's left-to-right fold is the
\* ^ of the folds of the two halves of the range; halving keeps the
\* evaluation shallow.
RECURSIVE XorRange(_, _, _)
XorRange(bytes, lo, hi) ==
    IF hi <= lo THEN 0
    ELSE IF hi = lo + 1 THEN Xor8(0, bytes[lo + 1])
    ELSE LET mid == (lo + hi) \div 2
         IN  Xor8(XorRange(bytes, lo, mid), XorRange(bytes, mid, hi))

-----------------------------------------------------------------------------
(* ReportStatus                                                            *)

ReportStatus == {"NewCommand", "Busy", "Success", "Failure", "Timeout", "Unsupported"}

\* `status as u8`
StatusAsU8(s) ==
    CASE s = "NewCommand" -> 0
      [] s = "Busy" -> 1
      [] s = "Success" -> 2
      [] s = "Failure" -> 3
      [] s = "Timeout" -> 4
      [] s = "Unsupported" -> 5

\* a coercing conversion: an unknown byte becomes NewCommand
StatusTryFromCoercing(value) ==
    CASE value = 1 -> [ok |-> TRUE, status |-> "Busy"]
      [] value = 2 -> [ok |-> TRUE, status |-> "Success"]
      [] value = 3 -> [ok |-> TRUE, status |-> "Failure"]
      [] value = 4 -> [ok |-> TRUE, status |-> "Timeout"]
      [] value = 5 -> [ok |-> TRUE, status |-> "Unsupported"]
      [] OTHER -> [ok |-> TRUE, status |-> "NewCommand"]

\* ReportStatus::try_from(u8)
StatusTryFrom(value) ==
    CASE value = 0 -> [ok |-> TRUE, status |-> "NewCommand"]
      [] value = 1 -> [ok |-> TRUE, status |-> "Busy"]
      [] value = 2 -> [ok |-> TRUE, status |-> "Success"]
      [] value = 3 -> [ok |-> TRUE, status |-> "Failure"]
      [] value = 4 -> [ok |-> TRUE, status |-> "Timeout"]
      [] value = 5 -> [ok |-> TRUE, status |-> "Unsupported"]
      [] OTHER -> [ok |-> FALSE, invalid_byte |-> value]

-----------------------------------------------------------------------------
(* RazerReport and its codec                                               *)

RazerReport(st, tid, rp, pt, ds, cc, ci, args, crc, res) ==
    [status |-> st, transaction_id |-> tid, remaining_packets |-> rp,
     protocol_type |-> pt, data_size |-> ds, command_class |-> cc,
     command_id |-> ci, arguments |-> args, crc |-> crc, reserved |-> res]

\* u16::to_be_bytes
ToBeBytes(x) == <<x \div 256, x % 256>>

\* u16::from_be_bytes
FromBeBytes(b) == b[1] * 256 + b[2]

\* the buffer of to_bytes before the checksum loop (lines 76-92)
Fields(r) ==
    <<StatusAsU8(r.status), r.transaction_id>>
    \o ToBeBytes(r.remaining_packets)
    \o <<r.protocol_type, r.data_size, r.command_class, r.command_id>>
    \o r.arguments
    \o <<0, 0>>

\* to_bytes with the checksum loop starting at the transaction id
ToBytesFromTid(r) ==
    LET bytes == Fields(r)
        checksum == XorRange(bytes, 1, 88)
    IN  [i \in 1..SIZE |-> IF i = 89 THEN checksum
                            ELSE IF i = 90 THEN r.reserved ELSE bytes[i]]

\* to_bytes writing the stored crc field and running the loop to the end
ToBytesStoredCrc(r) ==
    LET bytes == [i \in 1..SIZE |-> IF i = 89 THEN r.crc
                                     ELSE IF i = 90 THEN r.reserved ELSE Fields(r)[i]]
        checksum == XorRange(bytes, 2, 90)
    IN  [bytes EXCEPT ![89] = checksum]

\* to_bytes writing remaining_packets little-endian
ToBytesLittleEndian(r) ==
    LET bytes == [Fields(r) EXCEPT ![3] = r.remaining_packets % 256,
                                   ![4] = r.remaining_packets \div 256]
        checksum == XorRange(bytes, 2, 88)
    IN  [i \in 1..SIZE |-> IF i = 89 THEN checksum
                            ELSE IF i = 90 THEN r.reserved ELSE bytes[i]]

\* RazerReport::to_bytes
ToBytes(r) ==
    LET bytes == Fields(r)
        checksum == XorRange(bytes, 2, 88)
    IN  [i \in 1..SIZE |-> IF i = 89 THEN checksum
                            ELSE IF i = 90 THEN r.reserved ELSE bytes[i]]

\* a decoder that recomputes the checksum and rejects a report whose
\* checksum byte differs
TryFromBytesVerified(bytes) ==
    IF Len(bytes) # SIZE
    THEN [ok |-> FALSE,
          message |-> <<"Input byte slice is not the correct size (expected 90 bytes).">>]
    ELSE IF bytes[89] # XorRange(bytes, 2, 88)
         THEN [ok |-> FALSE, message |-> <<"Checksum mismatch">>]
         ELSE LET status == StatusTryFrom(bytes[1])
              IN  IF ~status.ok
                  THEN [ok |-> FALSE,
                        message |-> <<"Unexpected status: ", status.invalid_byte>>]
                  ELSE [ok |-> TRUE,
                        report |-> RazerReport(status.status, bytes[2],
                                               FromBeBytes(SubSeq(bytes, 3, 4)),
                                               bytes[5], bytes[6], bytes[7], bytes[8],
                                               SubSeq(bytes, 9, 88), bytes[89], bytes[90])]

\* RazerReport::try_from([u8; 90])
TryFromBytes(bytes) ==
    IF Len(bytes) # SIZE
    THEN [ok |-> FALSE,
          message |-> <<"Input byte slice is not the correct size (expected 90 bytes).">>]
    ELSE LET remaining_packets == FromBeBytes(SubSeq(bytes, 3, 4))
             arguments == SubSeq(bytes, 9, 88)
             status == StatusTryFrom(bytes[1])
         IN  IF ~status.ok
             THEN [ok |-> FALSE,
                   message |-> <<"Unexpected status: ", status.invalid_byte>>]
             ELSE [ok |-> TRUE,
                   report |-> RazerReport(status.status, bytes[2], remaining_packets,
                                          bytes[5], bytes[6], bytes[7], bytes[8],
                                          arguments, bytes[89], bytes[90])]

-----------------------------------------------------------------------------
(* f32 arithmetic of line 169.  A positive f32 is [m, e], standing for     *)
(* m * 2^e with m < 2^24 (24 significant bits); zero is [m |-> 0].         *)

Pow2(n) == 2 ^ n

\* number of bits of n >= 0
RECURSIVE BitLen(_)
BitLen(n) == IF n = 0 THEN 0 ELSE 1 + BitLen(n \div 2)

\* the exact value n * 2^e rounded to 24 significant bits, ties to even
F32Round(n, e) ==
    LET k == BitLen(n) - 24
    IN  IF k <= 0 THEN [m |-> n, e |-> e]
        ELSE LET q == n \div Pow2(k)
                 rem == n % Pow2(k)
                 half == Pow2(k - 1)
                 up == rem > half \/ (rem = half /\ q % 2 = 1)
             IN  [m |-> IF up THEN q + 1 ELSE q, e |-> e + k]

\* `x as f32` for a u8: exact
U8AsF32(x) == [m |-> x, e |-> 0]

\* long division: the quotient n / d developed to 24 significant bits,
\* with the remainder that decides the rounding
RECURSIVE DivBits(_, _, _, _)
DivBits(q, rem, d, e) ==
    IF q >= Pow2(23) THEN [q |-> q, rem |-> rem, e |-> e]
    ELSE IF 2 * rem >= d THEN DivBits(2 * q + 1, 2 * rem - d, d, e - 1)
         ELSE DivBits(2 * q, 2 * rem, d, e - 1)

\* a / b in f32 (b > 0, b.m small enough for exact integer long division)
F32Div(a, b) ==
    IF a.m = 0 THEN [m |-> 0, e |-> 0]
    ELSE LET r == DivBits(a.m \div b.m, a.m % b.m, b.m, a.e - b.e)
             up == 2 * r.rem > b.m \/ (2 * r.rem = b.m /\ r.q % 2 = 1)
         IN  F32Round(IF up THEN r.q + 1 ELSE r.q, r.e)

\* a * b in f32
F32Mul(a, b) ==
    IF a.m = 0 \/ b.m = 0 THEN [m |-> 0, e |-> 0]
    ELSE F32Round(a.m * b.m, a.e + b.e)

\* a cast that rounds to the nearest integer instead of truncating
F32RoundToU8(x) ==
    LET twice == IF x.e >= -1 THEN x.m * Pow2(x.e + 1) ELSE x.m \div Pow2(-x.e - 1)
        t == (twice + 1) \div 2
    IN  IF t > 255 THEN 255 ELSE t

\* `x as u8` for an f32 x >= 0: truncates toward zero and saturates
F32AsU8(x) ==
    LET t == IF x.e >= 0 THEN x.m * Pow2(x.e) ELSE x.m \div Pow2(-x.e)
    IN  IF t > 255 THEN 255 ELSE t

\* the literals 255.0 and 100.0
F255 == [m |-> 255, e |-> 0]
F100 == [m |-> 25, e |-> 2]

\* (raw as f32 / 255.0 * 100.0) as u8
Level(raw) == F32AsU8(F32Mul(F32Div(U8AsF32(raw), F255), F100))

\* Level for each u8, evaluated once
LevelOf == [raw \in Byte |-> Level(raw)]

-----------------------------------------------------------------------------
(* Output                                                                  *)

\* println!("N/A")
NALine == [kind |-> "result", text |-> <<"N/A">>]

\* println!("{}%{}", level, charge_status)
PercentLine(level, charge_status) ==
    [kind |-> "result", text |-> <<level, "%", charge_status>>]

\* println!("Raw Request Dump:") / println!("Raw Response Dump:") and the
\* listing print_hex_dump writes after it
DumpLines(title, buf) ==
    <<[kind |-> "dump", text |-> <<title>>], [kind |-> "dump", text |-> buf]>>

\* what `if cfg!(debug_assertions) { println!(..); print_hex_dump(..) }` prints
DebugDump(title, buf) == IF debug THEN DumpLines(title, buf) ELSE <<>>

BOLT == " ⚡"

\* an orchestrator that takes any non-zero charging byte for "charging"
ReportLineNonZero(levels, charging) ==
    IF levels.status = "Timeout" \/ charging.status = "Timeout"
    THEN NALine
    ELSE PercentLine(Level(levels.arguments[2]),
                     IF charging.arguments[2] # 0 THEN BOLT ELSE "")

\* an orchestrator that looks at the battery status only
ReportLineBatteryOnly(levels, charging) ==
    IF levels.status = "Timeout"
    THEN NALine
    ELSE PercentLine(Level(levels.arguments[2]),
                     IF charging.arguments[2] = 1 THEN BOLT ELSE "")

\* an orchestrator that gives a percentage only for two Success reports
ReportLineSuccessOnly(levels, charging) ==
    IF levels.status # "Success" \/ charging.status # "Success"
    THEN NALine
    ELSE PercentLine(Level(levels.arguments[2]),
                     IF charging.arguments[2] = 1 THEN BOLT ELSE "")

\* main, lines 163-172: the line printed for two decoded reports
ReportLine(levels, charging) ==
    IF levels.status = "Timeout" \/ charging.status = "Timeout"
    THEN NALine
    ELSE LET level == LevelOf[levels.arguments[2]]
             is_charging == charging.arguments[2] = 1
             charge_status == IF is_charging THEN BOLT ELSE ""
         IN  PercentLine(level, charge_status)

-----------------------------------------------------------------------------
(* Device search                                                           *)

Min(S) == CHOOSE x \in S : \A y \in S : x <= y

\* the closure of find_device's `.find(..)`
Matches(d, pid) ==
    d.vendor_id = RAZER_VID /\ d.product_id = pid /\ d.interface_number = 0

\* a search that keeps the last matching entry
LastMatch(devs, pid) ==
    LET hits == {i \in 1..Len(devs) : Matches(devs[i], pid)}
    IN  IF hits = {} THEN 0 ELSE CHOOSE i \in hits : \A j \in hits : j <= i

\* api.device_list().find(..): index of the first matching entry, 0 for None
FirstMatch(devs, pid) ==
    LET hits == {i \in 1..Len(devs) : Matches(devs[i], pid)}
    IN  IF hits = {} THEN 0 ELSE Min(hits)

\* `.or(..)` in place of `.or_else(..)`: the wireless search always runs
AfterWiredEager(found) == "find_wireless"

\* find_device(Wired).or_else(|| find_device(Wireless)): where main goes next
AfterWired(found) == IF found THEN "write" ELSE "find_wireless"

-----------------------------------------------------------------------------
(* One transaction                                                         *)

\* a request sent without the leading report-index byte
RequestUnframed(c) ==
    ToBytes(RazerReport("NewCommand", TRANSACTION_ID, 0, 0, 0, COMMAND_CLASS_MISC,
                        c, [i \in 1..ARGS |-> 0], 0, 0))

\* the request of get_razer_report (lines 203-218)
Request(c) ==
    <<REPORT_INDEX>> \o
    ToBytes(RazerReport("NewCommand", TRANSACTION_ID, 0, 0, 0, COMMAND_CLASS_MISC,
                        c, [i \in 1..ARGS |-> 0], 0, 0))

\* response_buf after get_feature_report stored `len` bytes of `resp` in it
ResponseBuf(len, resp) ==
    [i \in 1..WIRE |-> IF i <= len THEN resp[i]
                       ELSE IF i = 1 THEN REPORT_INDEX ELSE 0]

\* a validation without the transaction-id check
ValidateNoTid(len, response_buf) ==
    IF len < MIN_LEN THEN [ok |-> FALSE, message |-> <<"Response too short">>]
    ELSE TryFromBytes(SubSeq(response_buf, 2, WIRE))

\* the same three checks in the opposite order
ValidateReversed(len, response_buf) ==
    LET decoded == TryFromBytes(SubSeq(response_buf, 2, WIRE))
    IN  IF ~decoded.ok THEN decoded
        ELSE IF response_buf[3] # TRANSACTION_ID
             THEN [ok |-> FALSE, message |-> <<"Transaction ID mismatch">>]
             ELSE IF len < MIN_LEN
                  THEN [ok |-> FALSE, message |-> <<"Response too short">>]
                  ELSE decoded

\* get_razer_report, lines 245-255: the checks on what was read
Validate(len, response_buf) ==
    IF len < MIN_LEN THEN [ok |-> FALSE, message |-> <<"Response too short">>]
    ELSE IF response_buf[3] # TRANSACTION_ID
         THEN [ok |-> FALSE, message |-> <<"Transaction ID mismatch">>]
         ELSE TryFromBytes(SubSeq(response_buf, 2, WIRE))

-----------------------------------------------------------------------------
(* Inputs: what the HID layer may enumerate and return                     *)

DeviceEntries ==
    [vendor_id : {RAZER_VID, RAZER_VID + 1},
     product_id : {PID_BASILISK_V3_WIRED, PID_BASILISK_V3_WIRELESS},
     interface_number : {0, 1}]

Entry(pid) == [vendor_id |-> RAZER_VID, product_id |-> pid, interface_number |-> 0]

\* every device list of at most MaxDevices entries
DeviceLists == UNION {[1..n -> DeviceEntries] : n \in 0..MaxDevices}

\* no device, the wired one, or the wireless one
ProtocolLists ==
    {<<>>, <<Entry(PID_BASILISK_V3_WIRED)>>, <<Entry(PID_BASILISK_V3_WIRELESS)>>}

HidError == "hid error"

\* a 91-byte feature report as the device may fill it: status, transaction
\* id, echoed command id, arguments[1] = raw and every other argument = fill,
\* the device's checksum changed by `flip`, and the last byte
Response(st, tid, ci, fill, raw, flip, res) ==
    LET body == <<st, tid, 0, 0, 0, 2, COMMAND_CLASS_MISC, ci, fill, raw>>
                \o [i \in 1..(ARGS - 2) |-> fill] \o <<0, 0>>
        crc == Xor8(XorRange(body, 2, 88), flip)
    IN  <<REPORT_INDEX>> \o SubSeq(body, 1, 88) \o <<crc, res>>

Read(len, resp) == [len |-> len, resp |-> resp]

SampleRaw == {0, 1, 2, 128, 204, 255}

ValidStatus == 0..5

\* a good answer or two, a firmware timeout and a transaction-id mismatch
SessionReads(c) ==
    {Read(WIRE, Response(2, TRANSACTION_ID, c, 0, raw, 0, 0)) : raw \in {1, 204}}
    \cup {Read(WIRE, Response(4, TRANSACTION_ID, c, 0, 0, 0, 0)),
          Read(WIRE, Response(2, 0, c, 0, 204, 0, 0))}

\* every valid status with a few raw bytes, and one read per kind of failure
SampleReads(c) ==
    {Read(WIRE, Response(st, TRANSACTION_ID, c, 0, raw, 0, 0)) :
        st \in ValidStatus, raw \in SampleRaw}
    \cup {Read(MIN_LEN - 1, Response(2, TRANSACTION_ID, c, 0, 204, 0, 0)),
          Read(WIRE, Response(2, TRANSACTION_ID + 1, c, 0, 204, 0, 0)),
          Read(WIRE, Response(6, TRANSACTION_ID, c, 0, 204, 0, 0))}

\* every raw byte under every valid status; every status byte; every
\* transaction id; every length; and, with the sample raw bytes, a response
\* that echoes the other command, has other argument bytes set, a wrong
\* checksum or a non-zero last byte; and every checksum byte and every last
\* byte on a good answer
FullReads(c) ==
    {Read(WIRE, Response(st, TRANSACTION_ID, c, 0, raw, 0, 0)) :
        st \in ValidStatus, raw \in Byte}
    \cup {Read(WIRE, Response(st, TRANSACTION_ID, c, 0, 204, 0, 0)) : st \in Byte}
    \cup {Read(WIRE, Response(st, tid, c, 0, 204, 0, 0)) : st \in {2, 6}, tid \in Byte}
    \cup {Read(len, Response(st, tid, c, 0, 204, 0, 255)) :
            len \in 0..WIRE, st \in {2, 6}, tid \in {TRANSACTION_ID, 0}}
    \cup {Read(WIRE, Response(st, TRANSACTION_ID, v[1], v[2], raw, v[3], v[4])) :
            st \in ValidStatus, raw \in SampleRaw,
            v \in {<<GetBattery + GetChargingStatus - c, 0, 0, 0>>,
                   <<c, 255, 0, 0>>, <<c, 1, 0, 0>>, <<c, 0, 1, 0>>,
                   <<c, 0, 0, 255>>}}
    \cup {Read(WIRE, Response(2, TRANSACTION_ID, c, 0, 7, flip, res)) :
            flip \in Byte, res \in {0, 255}}
    \cup {Read(WIRE, Response(2, TRANSACTION_ID, c, 0, 7, flip, res)) :
            flip \in {0, 1}, res \in Byte}

\* the read sets of each command, evaluated once
SessionReadsOf == [c \in {GetBattery, GetChargingStatus} |-> SessionReads(c)]
SampleReadsOf == [c \in {GetBattery, GetChargingStatus} |-> SampleReads(c)]
FullReadsOf == [c \in {GetBattery, GetChargingStatus} |-> FullReads(c)]

\* the reads of the session specification
SessionInputs(c) == SessionReadsOf[c]

\* the battery report of an untroubled exchange
Nominal(report) ==
    /\ report.status = "Success"
    /\ report.arguments = [i \in 1..ARGS |-> IF i = 2 THEN report.arguments[2] ELSE 0]
    /\ report.arguments[2] \in SampleRaw
    /\ report.command_id = GetBattery
    /\ report.reserved = 0

\* the reads of the protocol specification: on the release build with the
\* wired device, the full set for the battery command and after a nominal
\* battery report; the samples otherwise
ProtocolInputs(c) ==
    IF /\ ~debug
       /\ device.pid = PID_BASILISK_V3_WIRED
       /\ (c = GetBattery \/ Nominal(levels_report))
    THEN FullReadsOf[c]
    ELSE SampleReadsOf[c]

-----------------------------------------------------------------------------
(* The program                                                             *)

Idle == t_report = None /\ t_bytes = None /\ t_parsed = None

Init ==
    /\ pc = "init"
    /\ debug \in BOOLEAN
    /\ devices = <<>>
    /\ device = None
    /\ cmd = None
    /\ levels_report = None
    /\ charging_report = None
    /\ io = <<>>
    /\ stdout = <<>>
    /\ stderr = <<>>
    /\ exit = "running"
    /\ Idle

\* an error handler that reports the device as absent
FailAsNA(out, message) ==
    /\ pc' = "done"
    /\ exit' = "success"
    /\ stdout' = Append(out, NALine)
    /\ stderr' = stderr

\* main returns Err (the `?` of lines 151, 159, 160): the runtime prints the
\* error to standard error and the process exits with a failure status
Fail(out, message) ==
    /\ pc' = "done"
    /\ exit' = "failure"
    /\ stdout' = out
    /\ stderr' = Append(stderr, <<"Error: ">> \o message)

\* HidApi::new()?, which enumerates the devices
ApiInit(lists) ==
    /\ pc = "init"
    /\ \E ok \in BOOLEAN :
        /\ io' = Append(io, [op |-> "init", ok |-> ok])
        /\ IF ok
           THEN /\ \E l \in lists : devices' = l
                /\ pc' = "find_wired"
                /\ UNCHANGED <<stdout, stderr, exit>>
           ELSE /\ Fail(stdout, <<HidError>>)
                /\ UNCHANGED devices
    /\ UNCHANGED <<debug, device, cmd, levels_report, charging_report>>
    /\ UNCHANGED codecVars

\* the calls find_device(pid) makes on the HID layer when the open gives `ok`
FindCalls(pid, ok) ==
    LET i == FirstMatch(devices, pid)
    IN  <<[op |-> "device_list", pid |-> pid]>>
        \o (IF i = 0 THEN <<>>
            ELSE <<[op |-> "open", pid |-> pid, index |-> i, ok |-> ok]>>)

\* find_device(pid, name) when the open gives `ok`
FindDevice(pid, name, ok) ==
    LET i == FirstMatch(devices, pid)
    IN  IF i # 0 /\ ok THEN [pid |-> pid, name |-> name, index |-> i] ELSE None

\* find_device(&api, PID_BASILISK_V3_WIRED, "Wired")
FindWired ==
    /\ pc = "find_wired"
    /\ \E ok \in BOOLEAN :
        LET found == FindDevice(PID_BASILISK_V3_WIRED, "Wired", ok)
        IN  /\ io' = io \o FindCalls(PID_BASILISK_V3_WIRED, ok)
            /\ device' = found
            /\ pc' = AfterWired(found # None)
            /\ cmd' = IF pc' = "write" THEN GetBattery ELSE cmd
    /\ UNCHANGED <<debug, devices, levels_report, charging_report, stdout, stderr, exit>>
    /\ UNCHANGED codecVars

\* .or_else(|| find_device(&api, PID_BASILISK_V3_WIRELESS, "Wireless"))
FindWireless ==
    /\ pc = "find_wireless"
    /\ \E ok \in BOOLEAN :
        LET found == FindDevice(PID_BASILISK_V3_WIRELESS, "Wireless", ok)
        IN  /\ io' = io \o FindCalls(PID_BASILISK_V3_WIRELESS, ok)
            /\ device' = IF device # None THEN device ELSE found
            /\ pc' = IF device' # None THEN "write" ELSE "not_found"
            /\ cmd' = IF pc' = "write" THEN GetBattery ELSE cmd
    /\ UNCHANGED <<debug, devices, levels_report, charging_report, stdout, stderr, exit>>
    /\ UNCHANGED codecVars

\* a None arm that treats the missing device as an error
NotFoundAsError ==
    /\ pc = "not_found"
    /\ Fail(stdout, <<"Razer Basilisk V3 Pro not found.">>)
    /\ UNCHANGED <<debug, devices, device, cmd, levels_report, charging_report, io>>
    /\ UNCHANGED codecVars

\* the None arm of main's match
NotFound ==
    /\ pc = "not_found"
    /\ stderr' = stderr \o
         (IF debug
          THEN <<<<"Error: Razer Basilisk V3 Pro not found.">>,
                 <<"Checked Wired and Wireless on Interface 0.",
                   PID_BASILISK_V3_WIRED, PID_BASILISK_V3_WIRELESS>>>>
          ELSE <<>>)
    /\ stdout' = Append(stdout, NALine)
    /\ exit' = "success"
    /\ pc' = "done"
    /\ UNCHANGED <<debug, devices, device, cmd, levels_report, charging_report, io>>
    /\ UNCHANGED codecVars

\* a send whose result is dropped: the wait and the read follow regardless
WriteUnchecked ==
    /\ pc = "write"
    /\ LET buf == Request(cmd)
       IN  \E ok \in BOOLEAN :
            /\ io' = Append(io, [op |-> "write", cmd |-> cmd, ok |-> ok, buf |-> buf])
            /\ pc' = "sleep"
            /\ stdout' = stdout \o DebugDump("Raw Request Dump:", buf)
            /\ UNCHANGED <<stderr, exit>>
    /\ UNCHANGED <<debug, devices, device, cmd, levels_report, charging_report>>
    /\ UNCHANGED codecVars

\* get_razer_report up to send_feature_report (lines 203-228)
Write ==
    /\ pc = "write"
    /\ LET buf == Request(cmd)
           out == stdout \o DebugDump("Raw Request Dump:", buf)
       IN  \E ok \in BOOLEAN :
            /\ io' = Append(io, [op |-> "write", cmd |-> cmd, ok |-> ok, buf |-> buf])
            /\ IF ok
               THEN /\ pc' = "sleep"
                    /\ stdout' = out
                    /\ UNCHANGED <<stderr, exit>>
               ELSE Fail(out, <<"Write failed: ", HidError>>)
    /\ UNCHANGED <<debug, devices, device, cmd, levels_report, charging_report>>
    /\ UNCHANGED codecVars

\* a settle wait that never ends
SleepForever ==
    /\ pc = "sleep"
    /\ UNCHANGED vars

\* thread::sleep(Duration::from_millis(50))
Sleep ==
    /\ pc = "sleep"
    /\ io' = Append(io, [op |-> "sleep", cmd |-> cmd, ms |-> 50])
    /\ pc' = "read"
    /\ UNCHANGED <<debug, devices, device, cmd, levels_report, charging_report,
                   stdout, stderr, exit>>
    /\ UNCHANGED codecVars

\* a main that asks for the same report again after each answer
ReturnedRepeat(report) ==
    /\ levels_report' = report
    /\ pc' = "write"
    /\ UNCHANGED <<cmd, charging_report>>

\* a main that tests the battery report for Timeout as soon as it has it
ReturnedEarlyTimeout(report) ==
    IF cmd = GetBattery /\ report.status = "Timeout"
    THEN /\ levels_report' = report
         /\ pc' = "interpret"
         /\ UNCHANGED <<cmd, charging_report>>
    ELSE IF cmd = GetBattery
         THEN /\ levels_report' = report
              /\ cmd' = GetChargingStatus
              /\ pc' = "write"
              /\ UNCHANGED charging_report
         ELSE /\ charging_report' = report
              /\ pc' = "interpret"
              /\ UNCHANGED <<levels_report, cmd>>

\* main takes the report get_razer_report returned (lines 159-160)
Returned(report) ==
    IF cmd = GetBattery
    THEN /\ levels_report' = report
         /\ cmd' = GetChargingStatus
         /\ pc' = "write"
         /\ UNCHANGED charging_report
    ELSE /\ charging_report' = report
         /\ pc' = "interpret"
         /\ UNCHANGED <<levels_report, cmd>>

\* get_razer_report from get_feature_report to its return (lines 233-255)
ReadReport(reads) ==
    /\ pc = "read"
    /\ \E ok \in BOOLEAN :
        IF ~ok
        THEN /\ io' = Append(io, [op |-> "read", cmd |-> cmd, ok |-> FALSE])
             /\ Fail(stdout, <<"Read failed: ", HidError>>)
             /\ UNCHANGED <<cmd, levels_report, charging_report>>
        ELSE \E rd \in reads :
              LET response_buf == ResponseBuf(rd.len, rd.resp)
                  out == stdout \o DebugDump("Raw Response Dump:", response_buf)
                  result == Validate(rd.len, response_buf)
              IN  /\ io' = Append(io, [op |-> "read", cmd |-> cmd, ok |-> TRUE,
                                       len |-> rd.len, buf |-> response_buf])
                  /\ IF result.ok
                     THEN /\ Returned(result.report)
                          /\ stdout' = out
                          /\ UNCHANGED <<stderr, exit>>
                     ELSE /\ Fail(out, result.message)
                          /\ UNCHANGED <<cmd, levels_report, charging_report>>
    /\ UNCHANGED <<debug, devices, device>>
    /\ UNCHANGED codecVars

\* main after both reports (lines 163-172, 185)
Interpret ==
    /\ pc = "interpret"
    /\ stdout' = Append(stdout, ReportLine(levels_report, charging_report))
    /\ exit' = "success"
    /\ pc' = "done"
    /\ UNCHANGED <<debug, devices, device, cmd, levels_report, charging_report,
                   io, stderr>>
    /\ UNCHANGED codecVars

Next ==
    \/ ApiInit(DeviceLists)
    \/ FindWired
    \/ FindWireless
    \/ NotFound
    \/ Write
    \/ Sleep
    \/ ReadReport(SessionInputs(cmd))
    \/ Interpret

Spec == Init /\ [][Next]_vars

\* main is sequential code and every call it makes on the HID layer returns:
\* while a step is possible, one is taken
SpecLive == Init /\ [][Next]_vars /\ WF_vars(Next)

NextProtocol ==
    \/ ApiInit(ProtocolLists)
    \/ FindWired
    \/ FindWireless
    \/ NotFound
    \/ Write
    \/ Sleep
    \/ ReadReport(ProtocolInputs(cmd))
    \/ Interpret

SpecProtocol == Init /\ [][NextProtocol]_vars

-----------------------------------------------------------------------------
(* The codec on its own: a report is encoded, then its encoding decoded    *)

TestBytes == {0, TRANSACTION_ID, 255}

\* u16 values whose two bytes differ, and the extremes
TestWords == {0, 1, 256, 4660, 65535}

\* protocol_type, data_size, command_class, command_id
TestHeaders ==
    {<<0, 0, COMMAND_CLASS_MISC, GetBattery>>, <<0, 0, COMMAND_CLASS_MISC, GetChargingStatus>>,
     <<1, 0, 0, 0>>, <<0, 2, 0, 0>>, <<255, 255, 255, 255>>}

\* the argument positions perturbed: ArgProbe from each end
ProbedArgs == (1..ArgProbe) \cup ((ARGS - ArgProbe + 1)..ARGS)

\* all zero, all 255, and one byte set at a probed position
TestArguments ==
    {[i \in 1..ARGS |-> 0], [i \in 1..ARGS |-> 255]}
    \cup {[i \in 1..ARGS |-> IF i = p THEN v ELSE 0] : p \in ProbedArgs, v \in {1, 255}}

TestReports ==
    {RazerReport(st, tid, rp, h[1], h[2], h[3], h[4], args, crc, res) :
        st \in ReportStatus, tid \in TestBytes, rp \in TestWords, h \in TestHeaders,
        args \in TestArguments, crc \in {0, 255}, res \in {0, 255}}

InitCodec ==
    /\ pc = "codec"
    /\ debug = FALSE
    /\ devices = <<>>
    /\ device = None
    /\ cmd = None
    /\ levels_report = None
    /\ charging_report = None
    /\ io = <<>>
    /\ stdout = <<>>
    /\ stderr = <<>>
    /\ exit = "running"
    /\ t_report \in TestReports
    /\ t_bytes = None
    /\ t_parsed = None

\* let bytes = report.to_bytes()
Encode ==
    /\ pc = "codec"
    /\ t_bytes = None
    /\ t_bytes' = ToBytes(t_report)
    /\ UNCHANGED <<t_report, t_parsed>>
    /\ UNCHANGED progVars

\* RazerReport::try_from(bytes)
Decode ==
    /\ pc = "codec"
    /\ t_bytes # None
    /\ t_parsed = None
    /\ t_parsed' = TryFromBytes(t_bytes)
    /\ UNCHANGED <<t_report, t_bytes>>
    /\ UNCHANGED progVars

NextCodec == Encode \/ Decode

SpecCodec == InitCodec /\ [][NextCodec]_vars

-----------------------------------------------------------------------------
(* Vocabulary of the properties                                            *)

Calls(op) == {i \in DOMAIN io : io[i].op = op}

\* the HID API was initialised, so the device search ran or will run
ApiOk == io # <<>> /\ io[1].op = "init" /\ io[1].ok

Opens(pid) == {i \in Calls("open") : io[i].pid = pid}

SuccessfulOpens == {i \in Calls("open") : io[i].ok}

\* reads that returned data for command c
DataReads(c) == {i \in Calls("read") : io[i].cmd = c /\ io[i].ok}

\* reads that reached the decoder: long enough, transaction id matching
DecodedReads == {i \in Calls("read") :
                    io[i].ok /\ io[i].len >= MIN_LEN /\ io[i].buf[3] = TRANSACTION_ID}

\* a call that ended its transaction in an error
TxError(e) ==
    \/ e.op = "write" /\ ~e.ok
    \/ /\ e.op = "read"
       /\ \/ ~e.ok
          \/ e.len < MIN_LEN
          \/ e.buf[3] # TRANSACTION_ID
          \/ e.buf[2] \notin ValidStatus

\* main's variable that receives the report of command c
ReportOf(c) == IF c = GetBattery THEN levels_report ELSE charging_report

\* the lines of standard output that are results, not diagnostic dumps
ResultLines(out) == SelectSeq(out, LAMBDA l : l.kind = "result")

Results == ResultLines(stdout)

PrintedNA == pc = "done" /\ Results = <<NALine>> /\ exit = "success"

\* the run ended having printed one percentage line
PrintedPercent ==
    pc = "done" /\ exit = "success" /\ Len(Results) = 1 /\ Len(Results[1].text) = 3

\* arguments[1] of the response read for command c, as it was on the wire
RawByte(c) == io[CHOOSE i \in DataReads(c) : TRUE].buf[11]

EitherTimeout ==
    \/ levels_report # None /\ levels_report.status = "Timeout"
    \/ charging_report # None /\ charging_report.status = "Timeout"

\* the ^ of the bytes of a sequence, bit by bit: bit k of the result is the
\* parity of the number of bytes that have bit k set
ParityXor(bytes) ==
    LET bit(k) == Cardinality({i \in DOMAIN bytes : (bytes[i] \div Pow2(k)) % 2 = 1}) % 2
    IN  bit(0) + 2 * bit(1) + 4 * bit(2) + 8 * bit(3)
        + 16 * bit(4) + 32 * bit(5) + 64 * bit(6) + 128 * bit(7)

\* the checksum byte of a report's encoding
ChecksumOf(r) == ToBytes(r)[89]

-----------------------------------------------------------------------------
(* C1.  As stated: once a device is opened, a decoded Timeout status on    *)
(* either response makes the run print exactly "N/A" and exit with         *)
(* success, whatever happens in the other command's transaction.           *)
C1_TimeoutAlwaysNA ==
    (pc = "done" /\ device # None /\ EitherTimeout) => PrintedNA

(* C1, amended.  When both transactions returned a decoded report and the  *)
(* status of either is Timeout, the run prints exactly "N/A" and exits     *)
(* with success, whatever the other report's status and arguments.         *)
C1_TimeoutNAWhenBothDecoded ==
    (pc = "done" /\ levels_report # None /\ charging_report # None /\ EitherTimeout)
        => PrintedNA

C1_Witness ==
    /\ PrintedNA
    /\ levels_report # None /\ levels_report.status = "Success"
    /\ levels_report.arguments[2] = 204
    /\ charging_report # None /\ charging_report.status = "Timeout"

(* C2.  A transaction-level error in either transaction (write failure,    *)
(* read failure, short response, transaction-id mismatch, invalid status   *)
(* byte) ends the run with a failure status and no result line, "N/A" or   *)
(* percentage, is ever printed.                                            *)
C2_TransactionErrorIsFatal ==
    (\E i \in DOMAIN io : TxError(io[i]))
        => pc = "done" /\ exit = "failure" /\ Results = <<>>

C2_Witness ==
    /\ levels_report # None
    /\ \E i \in Calls("read") :
          /\ io[i].cmd = GetChargingStatus
          /\ io[i].ok /\ io[i].len >= MIN_LEN /\ io[i].buf[3] # TRANSACTION_ID
    /\ exit = "failure"

(* C3.  When the search ran and neither candidate was found and opened,    *)
(* the run prints "N/A", exits with success, and no feature-report write   *)
(* or read is ever made.                                                   *)
C3_NotFoundPrintsNA ==
    SuccessfulOpens = {} =>
        /\ Calls("write") = {} /\ Calls("read") = {}
        /\ (pc = "done" /\ ApiOk) => PrintedNA

C3_Witness ==
    /\ PrintedNA
    /\ SuccessfulOpens = {}
    /\ Opens(PID_BASILISK_V3_WIRED) # {}
    /\ Opens(PID_BASILISK_V3_WIRELESS) # {}

(* C4.  The wired device is preferred: the session is on the wireless      *)
(* device only if no wired entry was found or its open failed; once the    *)
(* wired entry opened, the wireless candidate is neither searched for nor  *)
(* opened; a session holds exactly one handle.                             *)
C4_WiredPreferred ==
    /\ (device # None /\ device.pid = PID_BASILISK_V3_WIRELESS)
          => \/ FirstMatch(devices, PID_BASILISK_V3_WIRED) = 0
             \/ \E i \in Opens(PID_BASILISK_V3_WIRED) : ~io[i].ok
    /\ (\E i \in Opens(PID_BASILISK_V3_WIRED) : io[i].ok)
          => /\ device # None /\ device.pid = PID_BASILISK_V3_WIRED
             /\ \A i \in Calls("device_list") \cup Calls("open") :
                    io[i].pid # PID_BASILISK_V3_WIRELESS
    /\ device # None => Cardinality(SuccessfulOpens) = 1
    /\ device = None => SuccessfulOpens = {}

C4_Witness ==
    /\ device # None /\ device.pid = PID_BASILISK_V3_WIRELESS
    /\ \E i \in Opens(PID_BASILISK_V3_WIRED) : ~io[i].ok
    /\ pc = "done"

(* C5.  Round trip: decoding the encoding of a report succeeds and gives   *)
(* back its status, transaction_id, remaining_packets, protocol_type,      *)
(* data_size, command_class, command_id and all 80 arguments;              *)
(* remaining_packets is big-endian at offsets 2..3 of the encoding.        *)
C5_RoundTrip ==
    t_parsed # None =>
        /\ t_parsed.ok
        /\ t_parsed.report.status = t_report.status
        /\ t_parsed.report.transaction_id = t_report.transaction_id
        /\ t_parsed.report.remaining_packets = t_report.remaining_packets
        /\ t_parsed.report.protocol_type = t_report.protocol_type
        /\ t_parsed.report.data_size = t_report.data_size
        /\ t_parsed.report.command_class = t_report.command_class
        /\ t_parsed.report.command_id = t_report.command_id
        /\ Len(t_parsed.report.arguments) = ARGS
        /\ \A i \in 1..ARGS : t_parsed.report.arguments[i] = t_report.arguments[i]
        /\ t_bytes[3] * 256 + t_bytes[4] = t_report.remaining_packets
        /\ t_bytes[3] \in Byte /\ t_bytes[4] \in Byte

C5_Witness ==
    /\ t_parsed # None /\ t_parsed.ok
    /\ t_report.remaining_packets = 4660
    /\ t_parsed.report.remaining_packets = 4660
    /\ t_bytes[3] = 18 /\ t_bytes[4] = 52
    /\ t_parsed.report.arguments[ARGS] = 255

(* C6.  The byte encode writes at offset 88 is the XOR of the encoded      *)
(* bytes at offsets 2..87 and of nothing else: reports that differ only in *)
(* `reserved`, or only in the stored crc field, get the same checksum.     *)
C6_ChecksumOfEncodedBytes ==
    t_bytes # None =>
        /\ t_bytes[89] = ParityXor(SubSeq(t_bytes, 3, 88))
        /\ \A b \in TestBytes :
              /\ ChecksumOf([t_report EXCEPT !.reserved = b]) = t_bytes[89]
              /\ ChecksumOf([t_report EXCEPT !.crc = b]) = t_bytes[89]

C6_Witness ==
    /\ t_bytes # None
    /\ t_report.reserved = 255 /\ t_report.crc = 255
    /\ t_report.remaining_packets = 4660
    /\ t_report.protocol_type = 1
    /\ t_report.arguments = [i \in 1..ARGS |-> 0]
    /\ t_bytes[89] = 39

(* C7.  As stated: the checksum covers the transaction_id through the last *)
(* argument byte, so reports that differ only in transaction_id get        *)
(* different checksum bytes.                                               *)
C7_ChecksumCoversTransactionId ==
    t_bytes # None =>
        /\ t_bytes[89] = ParityXor(<<t_report.transaction_id>>
                                   \o ToBeBytes(t_report.remaining_packets)
                                   \o <<t_report.protocol_type, t_report.data_size,
                                        t_report.command_class, t_report.command_id>>
                                   \o t_report.arguments)
        /\ \A tid \in TestBytes \ {t_report.transaction_id} :
              ChecksumOf([t_report EXCEPT !.transaction_id = tid]) # t_bytes[89]

(* C7, amended.  The checksum covers remaining_packets through the last    *)
(* argument byte: it is the XOR of the two bytes of remaining_packets,     *)
(* protocol_type, data_size, command_class, command_id and all arguments.  *)
(* The status byte and the transaction_id are both excluded, so reports    *)
(* that differ only in transaction_id, or only in status, get the same     *)
(* checksum byte.                                                          *)
C7_ChecksumStartsAfterTransactionId ==
    t_bytes # None =>
        /\ t_bytes[89] = ParityXor(ToBeBytes(t_report.remaining_packets)
                                   \o <<t_report.protocol_type, t_report.data_size,
                                        t_report.command_class, t_report.command_id>>
                                   \o t_report.arguments)
        /\ \A tid \in TestBytes :
              ChecksumOf([t_report EXCEPT !.transaction_id = tid]) = t_bytes[89]
        /\ \A st \in ReportStatus :
              ChecksumOf([t_report EXCEPT !.status = st]) = t_bytes[89]

C7_Witness ==
    /\ t_bytes # None
    /\ t_report.transaction_id = TRANSACTION_ID
    /\ t_report.command_class = COMMAND_CLASS_MISC
    /\ t_report.command_id = GetBattery
    /\ t_report.remaining_packets = 0
    /\ t_report.arguments[1] = 0 /\ t_report.arguments[ARGS] = 0
    /\ t_bytes[89] = 135

(* C8.  Decode accepts a buffer exactly when its status byte is in         *)
(* 0x00..0x05, giving the status that byte names; any other byte is a      *)
(* parse error that names the byte, is never coerced to a status, and      *)
(* fails the transaction and the run.                                      *)
C8_InvalidStatusRejected ==
    \A i \in DecodedReads :
        LET b == io[i].buf[2]
            report == ReportOf(io[i].cmd)
        IN  /\ (b \in ValidStatus) <=> (report # None)
            /\ b \in ValidStatus => StatusAsU8(report.status) = b
            /\ b \notin ValidStatus =>
                  /\ pc = "done" /\ exit = "failure" /\ Results = <<>>
                  /\ stderr[Len(stderr)] = <<"Error: ", "Unexpected status: ", b>>

C8_Witness ==
    /\ exit = "failure"
    /\ \E i \in DecodedReads : io[i].buf[2] = 6 /\ io[i].cmd = GetBattery
    /\ levels_report = None

(* C9.  The printed percentage is floor(raw * 100 / 255) of the raw        *)
(* battery byte, arguments[1] of the battery response: it lies in 0..100,  *)
(* never decreases as raw grows (it is at least what raw - 1 gives, for    *)
(* every raw), and 0, 128, 204, 255 give 0, 50, 80, 100.                   *)
C9_PercentageTruncates ==
    PrintedPercent =>
        LET raw == RawByte(GetBattery)
            level == Results[1].text[1]
        IN  /\ level = (raw * 100) \div 255
            /\ level \in 0..100
            /\ raw > 0 => Level(raw - 1) <= level
            /\ raw = 0 => level = 0
            /\ raw = 128 => level = 50
            /\ raw = 204 => level = 80
            /\ raw = 255 => level = 100

C9_Witness ==
    /\ PrintedPercent
    /\ RawByte(GetBattery) = 128
    /\ Results[1].text[1] = 50

(* C10.  On a run that prints a percentage, the charging suffix is         *)
(* appended exactly when arguments[1] of the charging response is 1; any   *)
(* other value prints the bare percentage; raw 204 with charging byte 1    *)
(* prints "80% ⚡".                                                         *)
C10_ChargingSuffix ==
    PrintedPercent =>
        LET charging == RawByte(GetChargingStatus)
            suffix == Results[1].text[3]
        IN  /\ (suffix = BOLT) <=> (charging = 1)
            /\ charging # 1 => suffix = ""
            /\ Results[1].text[2] = "%"
            /\ (RawByte(GetBattery) = 204 /\ charging = 1)
                  => Results[1].text = <<80, "%", " ⚡">>

C10_Witness ==
    /\ PrintedPercent
    /\ RawByte(GetBattery) = 204
    /\ RawByte(GetChargingStatus) = 1
    /\ Results[1].text = <<80, "%", " ⚡">>

\* the feature-report writes and reads made for command c
WritesOf(c) == {i \in Calls("write") : io[i].cmd = c}

ReadsOf(c) == {i \in Calls("read") : io[i].cmd = c}

SleepsOf(c) == {i \in Calls("sleep") : io[i].cmd = c}

(* C12.  Within a transaction the calls are write, settle delay, read, in  *)
(* that order and each at most once: a read directly follows the delay,    *)
(* which directly follows the successful write of the same command; a      *)
(* failed write is followed by no delay and no read; and after a write or  *)
(* read that failed, or a response that was rejected, no further call is   *)
(* made, so nothing is retried.                                            *)
C12_WriteDelayRead ==
    /\ \A i \in Calls("read") :
          /\ i > 2
          /\ io[i - 1].op = "sleep" /\ io[i - 1].cmd = io[i].cmd
          /\ io[i - 2].op = "write" /\ io[i - 2].cmd = io[i].cmd /\ io[i - 2].ok
    /\ \A i \in Calls("sleep") :
          /\ i > 1
          /\ io[i].ms = 50
          /\ io[i - 1].op = "write" /\ io[i - 1].cmd = io[i].cmd /\ io[i - 1].ok
    /\ \A c \in {GetBattery, GetChargingStatus} :
          /\ Cardinality(WritesOf(c)) <= 1
          /\ Cardinality(SleepsOf(c)) <= 1
          /\ Cardinality(ReadsOf(c)) <= 1
    /\ \A i \in DOMAIN io : TxError(io[i]) => i = Len(io) /\ pc = "done"

C12_Witness ==
    /\ pc = "done"
    /\ ReadsOf(GetBattery) # {}
    /\ \E i \in WritesOf(GetChargingStatus) : ~io[i].ok
    /\ ReadsOf(GetChargingStatus) = {}

(* C13.  As stated: the transaction-id check guards against stale          *)
(* responses.  If the read of the charging transaction returns the very    *)
(* response the device gave to the battery command, the charging           *)
(* transaction fails with "Transaction ID mismatch" and that response is   *)
(* not decoded into the charging report.                                   *)
C13_StaleResponseRejected ==
    \A i \in DataReads(GetBattery), j \in DataReads(GetChargingStatus) :
        (io[i].buf[9] = GetBattery /\ io[j].buf = io[i].buf)
            => /\ charging_report = None
               /\ pc = "done" /\ exit = "failure"
               /\ stderr # <<>>
               /\ stderr[Len(stderr)] = <<"Error: ", "Transaction ID mismatch">>

\* the run ended in failure and its last error line is `message`
FailedWith(message) ==
    /\ pc = "done" /\ exit = "failure"
    /\ stderr # <<>>
    /\ stderr[Len(stderr)] = <<"Error: ">> \o message

(* C14.  A response is validated in the order length, transaction id,      *)
(* decode.  A read of fewer than 90 bytes fails with "Response too short"  *)
(* whatever the buffer holds; otherwise a byte at wire offset 2 other than *)
(* 0x1F fails with "Transaction ID mismatch", also when the status byte is *)
(* invalid; otherwise an invalid status byte fails the decode; and the     *)
(* transaction returns a report exactly when all three checks passed.      *)
C14_ValidationOrder ==
    \A i \in Calls("read") :
        io[i].ok =>
            LET e == io[i]
                Rejected(message) == ReportOf(e.cmd) = None /\ FailedWith(message)
            IN  IF e.len < 90 THEN Rejected(<<"Response too short">>)
                ELSE IF e.buf[3] # 31 THEN Rejected(<<"Transaction ID mismatch">>)
                ELSE IF e.buf[2] \notin ValidStatus
                     THEN Rejected(<<"Unexpected status: ", e.buf[2]>>)
                     ELSE /\ ReportOf(e.cmd) # None
                          /\ StatusAsU8(ReportOf(e.cmd).status) = e.buf[2]

C14_Witness ==
    /\ FailedWith(<<"Transaction ID mismatch">>)
    /\ \E i \in DataReads(GetChargingStatus) :
          /\ io[i].len >= 90
          /\ io[i].buf[3] # 31
          /\ io[i].buf[2] \notin ValidStatus

\* the status byte of the response read for command c, as it was on the wire
StatusByte(c) == io[CHOOSE i \in DataReads(c) : TRUE].buf[2]

\* the result line that the two responses on the wire call for
WireLine ==
    IF StatusByte(GetBattery) = 4 \/ StatusByte(GetChargingStatus) = 4
    THEN NALine
    ELSE PercentLine(Level(RawByte(GetBattery)),
                     IF RawByte(GetChargingStatus) = 1 THEN BOLT ELSE "")

\* the checksum byte of a 91-byte wire buffer is the ^ of its report's
\* bytes 2..87
ChecksumGood(buf) == buf[90] = ParityXor(SubSeq(buf, 4, 89))

(* C15.  The checksum of incoming data is never verified.  A response of   *)
(* at least 90 bytes with transaction id 0x1F and a known status byte is   *)
(* decoded whatever its bytes at offsets 88 and 89 of the report are, the  *)
(* two bytes being kept as read; and when both responses were so accepted  *)
(* the run prints the result line they call for, whether or not their      *)
(* checksum bytes equal the XOR of their bytes 2..87.                      *)
C15_ChecksumNotVerified ==
    /\ \A i \in DecodedReads :
          io[i].buf[2] \in ValidStatus =>
              /\ ReportOf(io[i].cmd) # None
              /\ ReportOf(io[i].cmd).crc = io[i].buf[90]
              /\ ReportOf(io[i].cmd).reserved = io[i].buf[91]
    /\ (/\ pc = "done"
        /\ \A c \in {GetBattery, GetChargingStatus} :
              \E i \in DecodedReads : io[i].cmd = c /\ io[i].buf[2] \in ValidStatus)
          => exit = "success" /\ Results = <<WireLine>>

C15_Witness ==
    /\ PrintedPercent
    /\ \E i \in DataReads(GetBattery) :
          ~ChecksumGood(io[i].buf) /\ io[i].buf[11] = 204
    /\ \E j \in DataReads(GetChargingStatus) :
          ~ChecksumGood(io[j].buf) /\ io[j].buf[11] = 1
    /\ Results = <<PercentLine(80, BOLT)>>

\* the 91 bytes of a request for command id `id`, by wire offset k - 1
RequestBytes(id) ==
    [k \in 1..91 |-> CASE k = 3 -> 31
                       [] k = 8 -> 7
                       [] k = 9 -> id
                       [] k = 90 -> ParityXor(<<7, id>>)
                       [] OTHER -> 0]

(* C16.  Every request written to the device is a 91-byte buffer: 0x00 at  *)
(* offset 0, status 0x00 at offset 1, transaction id 0x1F at offset 2,     *)
(* zeros at offsets 3..6, command class 0x07 at offset 7, command id 0x80  *)
(* in the first write and 0x84 in the second at offset 8, 80 zero argument *)
(* bytes, checksum 0x07 XOR command id at offset 89 and 0x00 at offset 90. *)
C16_RequestBytes ==
    \A i \in Calls("write") :
        /\ Len(io[i].buf) = 91
        /\ io[i].buf = RequestBytes(IF i = Min(Calls("write")) THEN 128 ELSE 132)

C16_Witness ==
    /\ Cardinality(Calls("write")) = 2
    /\ \E i, j \in Calls("write") :
          /\ i < j
          /\ io[i].buf[9] = 128 /\ io[i].buf[90] = 135
          /\ io[j].buf[9] = 132 /\ io[j].buf[90] = 131

\* an enumerated entry that is a candidate for product id pid
IsCandidate(d, pid) ==
    d.vendor_id = 5426 /\ d.product_id = pid /\ d.interface_number = 0

(* C17.  For each candidate product id at most one open is attempted, on   *)
(* the first enumerated entry with vendor 0x1532, that product id and      *)
(* interface 0.  If that open fails, no other entry of the product id is   *)
(* tried and the open is not repeated: after the wired candidate the       *)
(* search goes on to the wireless one, and after the wireless one it ends  *)
(* with no device, the run printing "N/A".                                 *)
C17_FirstMatchOnly ==
    \A pid \in {PID_BASILISK_V3_WIRED, PID_BASILISK_V3_WIRELESS} :
        /\ Cardinality(Opens(pid)) <= 1
        /\ \A i \in Opens(pid) :
              LET k == io[i].index
              IN  /\ k \in DOMAIN devices
                  /\ IsCandidate(devices[k], pid)
                  /\ \A j \in 1..(k - 1) : ~IsCandidate(devices[j], pid)
                  /\ ~io[i].ok =>
                        /\ device = None \/ device.pid # pid
                        /\ IF pid = PID_BASILISK_V3_WIRED
                           THEN \/ pc = "find_wireless" /\ i = Len(io)
                                \/ /\ i < Len(io)
                                   /\ io[i + 1] = [op |-> "device_list",
                                                   pid |-> PID_BASILISK_V3_WIRELESS]
                           ELSE /\ i = Len(io)
                                /\ device = None
                                /\ pc \in {"not_found", "done"}
                                /\ pc = "done" => PrintedNA

C17_Witness ==
    /\ Len(devices) = 2
    /\ IsCandidate(devices[1], PID_BASILISK_V3_WIRED)
    /\ IsCandidate(devices[2], PID_BASILISK_V3_WIRED)
    /\ \E i \in Opens(PID_BASILISK_V3_WIRED) : ~io[i].ok /\ io[i].index = 1
    /\ PrintedNA

(* C18.  "N/A" is printed only when no device was opened or the decoded    *)
(* status of one of the two responses is Timeout.  When both transactions  *)
(* returned a report and neither status is Timeout, whatever else the two  *)
(* statuses are, the run prints one percentage line computed from          *)
(* arguments[1] of the two reports and exits with success.                 *)
C18_StatusOnlyTestedForTimeout ==
    /\ (\E k \in DOMAIN Results : Results[k] = NALine)
          => SuccessfulOpens = {} \/ EitherTimeout
    /\ (pc = "done" /\ levels_report # None /\ charging_report # None /\ ~EitherTimeout)
          => /\ PrintedPercent
             /\ Results[1] = PercentLine(Level(levels_report.arguments[2]),
                                         IF charging_report.arguments[2] = 1
                                         THEN BOLT ELSE "")

C18_Witness ==
    /\ PrintedPercent
    /\ levels_report # None /\ levels_report.status = "Busy"
    /\ levels_report.arguments[2] = 128
    /\ charging_report # None /\ charging_report.status = "Failure"
    /\ charging_report.arguments[2] = 1
    /\ Results = <<PercentLine(50, BOLT)>>

(* C19.  Once the battery transaction returned a decoded report, whatever  *)
(* its status, the charging command is the next thing written to the       *)
(* device; the reports are interpreted, and "N/A" printed for a Timeout,   *)
(* only after both transactions returned a report.                         *)
C19_ChargingIssuedWhateverStatus ==
    /\ levels_report # None
          => /\ cmd = GetChargingStatus
             /\ pc = "write" \/ WritesOf(GetChargingStatus) # {}
    /\ pc = "interpret" => levels_report # None /\ charging_report # None
    /\ ((\E k \in DOMAIN Results : Results[k] = NALine) /\ SuccessfulOpens # {})
          => levels_report # None /\ charging_report # None

C19_Witness ==
    /\ levels_report # None /\ levels_report.status = "Timeout"
    /\ \E i \in WritesOf(GetChargingStatus) : io[i].ok
    /\ charging_report # None /\ charging_report.status = "Success"
    /\ PrintedNA

\* the ways a run can have ended
Outcomes ==
    {o \in {"na", "percent", "failure"} :
        \/ o = "na" /\ PrintedNA
        \/ o = "percent" /\ PrintedPercent
        \/ o = "failure" /\ pc = "done" /\ exit = "failure" /\ Results = <<>>}

(* C20.  Every run in which each call on the HID layer returns comes to an *)
(* end, and ends in exactly one of three ways: "N/A" printed and success,  *)
(* one percentage line printed and success, or failure with no result line *)
(* printed; at no point does standard output hold more than one result     *)
(* line.                                                                   *)
C20_TerminatesInOneOutcome ==
    /\ <>[](pc = "done")
    /\ [](pc = "done" => Cardinality(Outcomes) = 1)
    /\ [](pc # "done" => exit = "running")
    /\ [](Len(Results) <= 1)

C20_Witness ==
    /\ Outcomes = {"failure"}
    /\ debug
    /\ levels_report # None
    /\ stdout # <<>>
    /\ \E i \in ReadsOf(GetChargingStatus) : TxError(io[i])

====
